---- MODULE Spec2Model ----
(***************************************************************************)
(* A model of the ordered_mutex crate: the RankSet bit mask                *)
(* (src/src/rank_set.rs), the per-thread ThreadState, the SavedState scope *)
(* guard and the ranked Mutex / MutexGuard (src/src/lib.rs).               *)
(*                                                                         *)
(* A u64 is represented by the set of positions of its set bits, a subset  *)
(* of 0..63; the bit operations of the source are operators on such sets.  *)
(***************************************************************************)
EXTENDS Integers, Sequences, FiniteSets, TLC

\* ---------------------------------------------------------------- bounds
NumThreads == 2
NumMutexes == 2
NumRanks == 3
LogWindow == 4

\* Width of RankSet::bitset (u64).
Width == 64

Threads == 1..NumThreads
Mutexes == 1..NumMutexes
\* The codes of the variants of the rank enum: define_rank! accepts variants
\* without discriminants only, so they are numbered from 0.
RankCodes == 0..(NumRanks - 1)
Bits == 0..(Width - 1)

VARIABLES
    rank,          \* rank[m]: Mutex::rank, fixed by Mutex::new
    inner,         \* inner[m]: the thread holding Mutex::inner, 0 when unlocked
    poisoned,      \* poisoned[m]: the poison flag of Mutex::inner
    current_rank,  \* current_rank[s]: ThreadState::current_rank of thread-local slot s
    saved_state,   \* saved_state[t]: the live SavedState values of thread t, oldest
                   \*   first, each named by the Mutex whose lock() created it
    pc,            \* pc[t]: "idle", "inner_lock" (in Mutex::lock after
                   \*   ThreadState::lock), "drop_saved" (in MutexGuard's drop
                   \*   after the field inner was dropped)
    dropping,      \* dropping[t]: index in saved_state[t] of the guard being dropped
    panicking,     \* panicking[t]: thread t is unwinding from a panic
    log,           \* log[t]: the rank operations of thread t since its last panic,
                   \*   the last LogWindow of them
    rank_set       \* a RankSet used on its own: its bitset, and the last method
                   \*   called on it with the argument, the mask before and the result

vars == <<rank_set, rank, inner, poisoned, current_rank, saved_state, pc, dropping, panicking, log>>

\* ------------------------------------------------------- u64 as a bit set
Min(S) == CHOOSE x \in S : \A y \in S : x <= y
Max(S) == CHOOSE x \in S : \A y \in S : x >= y

\* 1_u64 << n, for a shift count n < 64 (a count of 64 or more overflows the
\* shift: a panic with overflow checks, the count taken modulo 64 without)
Shl1(n) == {n % Width}
\* x - 1 on a non-zero u64: the lowest set bit is cleared, all lower bits are set
Dec(x) == IF x = {} THEN Bits ELSE (x \ {Min(x)}) \cup {i \in Bits : i < Min(x)}
\* !x
Not(x) == Bits \ x
\* x & y
And(x, y) == x \cap y
\* x | y
Or(x, y) == x \cup y

\* ---------------------------------------------------------------- RankSet
\* RankSet::new
RankSetNew == {}

\* Variant of Insert: the mask leaves out `bit` itself (greater than, not
\* greater than or equal)
InsertStrict(bitset, elt) ==
    LET bit == Shl1(elt)
        greater_than == Not(Or(bit, Dec(bit)))
        result == And(bitset, greater_than) # {}
    IN  [result |-> result, bitset |-> Or(bitset, bit)]

\* Variant of Insert: the mask is not complemented (the bits below `bit`)
InsertLower(bitset, elt) ==
    LET bit == Shl1(elt)
        lower == Dec(bit)
        result == And(bitset, lower) # {}
    IN  [result |-> result, bitset |-> Or(bitset, bit)]

\* Variant of Insert: the flag is computed but the bit is not stored
InsertNoStore(bitset, elt) ==
    LET bit == Shl1(elt)
        greater_than_or_equal == Not(Dec(bit))
        result == And(bitset, greater_than_or_equal) # {}
    IN  [result |-> result, bitset |-> bitset]

\* RankSet::insert: the new mask and the returned flag
Insert(bitset, elt) ==
    LET bit == Shl1(elt)
        greater_than_or_equal == Not(Dec(bit))
        result == And(bitset, greater_than_or_equal) # {}
    IN  [result |-> result, bitset |-> Or(bitset, bit)]

\* Variant of Remove: clears the bit only when it is the highest one set
\* (release in stack order only)
RemoveIfTop(bitset, elt) ==
    IF bitset # {} /\ Max(bitset) = elt % Width THEN And(bitset, Not(Shl1(elt))) ELSE bitset

\* Variant of Remove: clears the bit and every higher one (restores the mask to
\* what it was before the rank was inserted)
RemoveFrom(bitset, elt) ==
    LET bit == Shl1(elt)
    IN  And(bitset, Dec(bit))

\* RankSet::remove
Remove(bitset, elt) ==
    LET bit == Shl1(elt)
    IN  And(bitset, Not(bit))

\* ------------------------------------------------------------ ThreadState
\* Variant of CURRENT_RANK: one slot shared by all threads (a plain static)
SharedSlot(t) == 1

\* The thread_local! slot R::CURRENT_RANK.with(..) resolves to on thread t
CURRENT_RANK(t) == t

\* Variant of AssertHolds: the check is compiled out
AssertOff(inserted) == TRUE

\* The condition of the assert! in ThreadState::lock
AssertHolds(inserted) == ~inserted.result

\* ------------------------------------------------------------------- log
LogEntry(op, r, pre) == [op |-> op, rank |-> r, pre |-> pre]

\* The log follows one thread: the threads run the same code.
Observed(t) == t = 1

Record(t, l, e) ==
    LET l2 == Append(l, e)
    IN  IF ~Observed(t) THEN l
        ELSE IF Len(l2) > LogWindow THEN SubSeq(l2, 2, Len(l2)) ELSE l2

RemoveAt(s, i) == SubSeq(s, 1, i - 1) \o SubSeq(s, i + 1, Len(s))

Last(s) == s[Len(s)]

\* A RankSet with the given mask, no method called yet
NewRankSet(bitset) ==
    [op |-> "new", elt |-> 0, pre |-> bitset, result |-> FALSE, bitset |-> bitset]

\* ------------------------------------------------------------------ Init
\* Mutex::new(value, rank) for every Mutex: any rank of the enum. The mutexes
\* are numbered by rank (two assignments that differ by a renumbering of the
\* mutexes give the same behaviours).
Init ==
    /\ rank \in {f \in [Mutexes -> RankCodes] :
                   \A m1 \in Mutexes, m2 \in Mutexes : m1 < m2 => f[m1] <= f[m2]}
    /\ inner = [m \in Mutexes |-> 0]
    /\ poisoned = [m \in Mutexes |-> FALSE]
    /\ current_rank = [s \in Threads |-> RankSetNew]
    /\ saved_state = [t \in Threads |-> <<>>]
    /\ pc = [t \in Threads |-> "idle"]
    /\ dropping = [t \in Threads |-> 0]
    /\ panicking = [t \in Threads |-> FALSE]
    /\ log = [t \in Threads |-> <<>>]
    /\ rank_set = NewRankSet(RankSetNew)

\* --------------------------------------------------------------- actions
\* Mutex::lock, first statement: ThreadState::lock(self.rank.clone()).
\* insert always stores the bit; the assert! then panics or a SavedState is made.
ThreadStateLock(t, m) ==
    /\ pc[t] = "idle"
    /\ ~panicking[t]
    /\ LET s == CURRENT_RANK(t)
           inserted == Insert(current_rank[s], rank[m])
       IN  /\ current_rank' = [current_rank EXCEPT ![s] = inserted.bitset]
           /\ IF AssertHolds(inserted)
              THEN /\ saved_state' = [saved_state EXCEPT ![t] = Append(@, m)]
                   /\ pc' = [pc EXCEPT ![t] = "inner_lock"]
                   /\ panicking' = panicking
                   /\ log' = [log EXCEPT ![t] =
                                Record(t, @, LogEntry("lock_ok", rank[m], current_rank[s]))]
              ELSE /\ saved_state' = saved_state
                   /\ pc' = pc
                   /\ panicking' = [panicking EXCEPT ![t] = TRUE]
                   /\ log' = [log EXCEPT ![t] = <<>>]
    /\ UNCHANGED <<rank_set, rank, inner, poisoned, dropping>>

\* Variant of InnerLock: the Err arm returns the poison error without the
\* saved_state, which is dropped at once
InnerLockLosesRank(t) ==
    /\ pc[t] = "inner_lock"
    /\ LET m == Last(saved_state[t])
       IN  /\ inner[m] = 0
           /\ inner' = [inner EXCEPT ![m] = t]
           /\ IF poisoned[m]
              THEN /\ current_rank' = [current_rank EXCEPT ![CURRENT_RANK(t)] = Remove(@, rank[m])]
                   /\ saved_state' = [saved_state EXCEPT ![t] = SubSeq(@, 1, Len(@) - 1)]
              ELSE UNCHANGED <<current_rank, saved_state>>
    /\ pc' = [pc EXCEPT ![t] = "idle"]
    /\ UNCHANGED <<rank_set, rank, poisoned, dropping, panicking, log>>

\* Mutex::lock, second statement: self.inner.lock() returns once the underlying
\* mutex is free; Ok and Err(PoisonError) both carry the MutexGuard.
InnerLock(t) ==
    /\ pc[t] = "inner_lock"
    /\ LET m == Last(saved_state[t])
       IN  /\ inner[m] = 0
           /\ inner' = [inner EXCEPT ![m] = t]
    /\ pc' = [pc EXCEPT ![t] = "idle"]
    /\ UNCHANGED <<rank_set, rank, poisoned, current_rank, saved_state, dropping, panicking, log>>

\* Variant of DropInner: the field saved_state is declared, and so dropped,
\* before the field inner
DropSavedStateFirst(t, i) ==
    /\ pc[t] = "idle"
    /\ i \in 1..Len(saved_state[t])
    /\ current_rank' = [current_rank EXCEPT ![CURRENT_RANK(t)] =
                           Remove(@, rank[saved_state[t][i]])]
    /\ pc' = [pc EXCEPT ![t] = "drop_saved"]
    /\ dropping' = [dropping EXCEPT ![t] = i]
    /\ UNCHANGED <<rank_set, rank, inner, poisoned, saved_state, panicking, log>>

\* Drop of a MutexGuard, first field: inner (the std guard) unlocks the
\* underlying mutex, poisoning it when the thread is unwinding.
DropInner(t, i) ==
    /\ pc[t] = "idle"
    /\ i \in 1..Len(saved_state[t])
    /\ LET m == saved_state[t][i]
       IN  /\ inner' = [inner EXCEPT ![m] = 0]
           /\ poisoned' = [poisoned EXCEPT ![m] = @ \/ panicking[t]]
    /\ pc' = [pc EXCEPT ![t] = "drop_saved"]
    /\ dropping' = [dropping EXCEPT ![t] = i]
    /\ UNCHANGED <<rank_set, rank, current_rank, saved_state, panicking, log>>

\* Drop of a MutexGuard, second field: saved_state, whose drop calls
\* ThreadState::unlock(self.rank.clone()).
DropSavedState(t) ==
    /\ pc[t] = "drop_saved"
    /\ LET s == CURRENT_RANK(t)
           i == dropping[t]
           r == rank[saved_state[t][i]]
       IN  /\ current_rank' = [current_rank EXCEPT ![s] = Remove(@, r)]
           /\ saved_state' = [saved_state EXCEPT ![t] = RemoveAt(@, i)]
           /\ log' = [log EXCEPT ![t] = Record(t, @, LogEntry("drop", r, current_rank[s]))]
    /\ pc' = [pc EXCEPT ![t] = "idle"]
    /\ dropping' = [dropping EXCEPT ![t] = 0]
    /\ UNCHANGED <<rank_set, rank, inner, poisoned, panicking>>

\* The panic raised by the assert! is caught by a caller (catch_unwind, a
\* #[should_panic] harness); the guards not yet dropped by unwinding stay live.
CatchUnwind(t) ==
    /\ panicking[t]
    /\ pc[t] = "idle"
    /\ panicking' = [panicking EXCEPT ![t] = FALSE]
    /\ UNCHANGED <<rank_set, rank, inner, poisoned, current_rank, saved_state, pc, dropping, log>>

Next ==
    \/ \E t \in Threads, m \in Mutexes : ThreadStateLock(t, m)
    \/ \E t \in Threads : InnerLock(t)
    \/ \E t \in Threads, i \in 1..NumMutexes : DropInner(t, i)
    \/ \E t \in Threads : DropSavedState(t)
    \/ \E t \in Threads : CatchUnwind(t)

Spec == Init /\ [][Next]_vars

\* One thread alone: the sequence of acquire and release calls of a thread.
NextSeq ==
    \/ \E m \in Mutexes : ThreadStateLock(1, m)
    \/ InnerLock(1)
    \/ \E i \in 1..NumMutexes : DropInner(1, i)
    \/ DropSavedState(1)
    \/ CatchUnwind(1)

SpecSeq == Init /\ [][NextSeq]_vars

\* ------------------------------------------------- RankSet on its own
\* The bit positions the masks are drawn from: the two ends and the middle
SampleBits == {0, 1, Width \div 2 - 1, Width \div 2, Width - 2, Width - 1}

\* One RankSet with any mask over SampleBits; nothing else is in use.
InitFn ==
    /\ rank_set \in {NewRankSet(b) : b \in SUBSET SampleBits}
    /\ rank = [m \in Mutexes |-> 0]
    /\ inner = [m \in Mutexes |-> 0]
    /\ poisoned = [m \in Mutexes |-> FALSE]
    /\ current_rank = [s \in Threads |-> RankSetNew]
    /\ saved_state = [t \in Threads |-> <<>>]
    /\ pc = [t \in Threads |-> "idle"]
    /\ dropping = [t \in Threads |-> 0]
    /\ panicking = [t \in Threads |-> FALSE]
    /\ log = [t \in Threads |-> <<>>]

\* rank_set.insert(elt)
RankSetInsert(elt) ==
    /\ rank_set.op = "new"
    /\ LET inserted == Insert(rank_set.bitset, elt)
       IN  rank_set' = [op |-> "insert", elt |-> elt, pre |-> rank_set.bitset,
                        result |-> inserted.result, bitset |-> inserted.bitset]
    /\ UNCHANGED <<rank, inner, poisoned, current_rank, saved_state, pc, dropping,
                   panicking, log>>

\* rank_set.remove(elt)
RankSetRemove(elt) ==
    /\ rank_set.op = "new"
    /\ rank_set' = [op |-> "remove", elt |-> elt, pre |-> rank_set.bitset,
                    result |-> FALSE, bitset |-> Remove(rank_set.bitset, elt)]
    /\ UNCHANGED <<rank, inner, poisoned, current_rank, saved_state, pc, dropping,
                   panicking, log>>

NextFn ==
    \/ \E elt \in Bits : RankSetInsert(elt)
    \/ \E elt \in Bits : RankSetRemove(elt)

SpecFn == InitFn /\ [][NextFn]_vars

\* define_rank! with an enum of Width + 1 variants: the macro takes any number
\* of variants. The lowest code and the two highest ones stand for the enum.
WideCodes == {0, Width - 1, Width}

InitWide ==
    /\ rank \in {f \in [Mutexes -> WideCodes] :
                   \A m1 \in Mutexes, m2 \in Mutexes : m1 < m2 => f[m1] <= f[m2]}
    /\ inner = [m \in Mutexes |-> 0]
    /\ poisoned = [m \in Mutexes |-> FALSE]
    /\ current_rank = [s \in Threads |-> RankSetNew]
    /\ saved_state = [t \in Threads |-> <<>>]
    /\ pc = [t \in Threads |-> "idle"]
    /\ dropping = [t \in Threads |-> 0]
    /\ panicking = [t \in Threads |-> FALSE]
    /\ log = [t \in Threads |-> <<>>]
    /\ rank_set = NewRankSet(RankSetNew)

\* RankSet::insert reached from Mutex::lock with a code of Width or more, in a
\* build with overflow checks: 1_u64 << elt.into() panics, the mask is not
\* changed. (Without overflow checks the shift count wraps: ThreadStateLock.)
ShiftOverflow(t, m) ==
    /\ pc[t] = "idle"
    /\ ~panicking[t]
    /\ rank[m] >= Width
    /\ panicking' = [panicking EXCEPT ![t] = TRUE]
    /\ log' = [log EXCEPT ![t] = <<>>]
    /\ UNCHANGED <<rank_set, rank, inner, poisoned, current_rank, saved_state, pc, dropping>>

\* One thread alone, with the ranks of the wide enum.
NextWide ==
    \/ \E m \in Mutexes : ThreadStateLock(1, m)
    \/ \E m \in Mutexes : ShiftOverflow(1, m)
    \/ InnerLock(1)
    \/ \E i \in 1..NumMutexes : DropInner(1, i)
    \/ DropSavedState(1)
    \/ CatchUnwind(1)

SpecWide == InitWide /\ [][NextWide]_vars

\* ------------------------------------------------------------ vocabulary
\* The rank codes of the live SavedState values of thread t
HeldRanks(t) == {rank[saved_state[t][i]] : i \in 1..Len(saved_state[t])}

\* The rank codes of the live MutexGuards of thread t: while Mutex::lock waits
\* for the underlying mutex, the newest SavedState is not yet in a guard.
GuardIndexes(t) ==
    IF pc[t] = "inner_lock" THEN 1..(Len(saved_state[t]) - 1) ELSE 1..Len(saved_state[t])
GuardRanks(t) == {rank[saved_state[t][i]] : i \in GuardIndexes(t)}

\* Thread t is inside self.inner.lock() and the underlying mutex is taken
Blocked(t) == pc[t] = "inner_lock" /\ inner[Last(saved_state[t])] # 0

\* The RankSet of thread t
RankSetOf(t) == current_rank[CURRENT_RANK(t)]

\* ------------------------------------------------------------------- C1
\* C1: deadlock freedom. No reachable state has a wait-for cycle: a non-empty
\* set of threads, each blocked in self.inner.lock() on a Mutex whose underlying
\* lock is held by a thread of the set (a thread blocked on a Mutex it holds
\* itself included).
C1_NoWaitForCycle ==
    ~\E S \in SUBSET Threads :
        /\ S # {}
        /\ \A t \in S : Blocked(t) /\ inner[Last(saved_state[t])] \in S

\* A thread holds one lock and is blocked on a second one, whose holder was
\* refused the opposite order and is unwinding.
C1_Witness ==
    \E t1 \in Threads, t2 \in Threads :
        /\ t1 # t2
        /\ Blocked(t1)
        /\ inner[Last(saved_state[t1])] = t2
        /\ \E m \in Mutexes : inner[m] = t1
        /\ panicking[t2]

\* ------------------------------------------------------------------- C2
\* C2: violation detection. Whenever a thread that holds a live guard of rank a
\* calls Mutex::lock on a mutex of rank b with a >= b (equal ranks included),
\* the call panics: no SavedState and no guard is made, and the underlying
\* mutex is not touched.
C2_ViolationDetected ==
    [][\A t \in Threads, m \in Mutexes :
          ((\E a \in GuardRanks(t) : a >= rank[m]) /\ ThreadStateLock(t, m))
          => /\ panicking'[t]
             /\ saved_state'[t] = saved_state[t]
             /\ pc'[t] = "idle"
             /\ inner' = inner]_vars

\* A thread is unwinding while it holds a guard of rank a, and a bit b < a that
\* belongs to none of its guards is set: the refused acquisition of rank b.
C2_Witness ==
    \E t \in Threads :
        /\ panicking[t]
        /\ pc[t] = "idle"
        /\ \E a \in GuardRanks(t) : \E b \in RankSetOf(t) \ HeldRanks(t) : b < a

\* ------------------------------------------------------------------- C3
\* C3: no false violation. A Mutex::lock on a mutex of rank r does not panic
\* when the calling thread holds no live guard of rank >= r.
C3_NoFalseViolation ==
    [][\A t \in Threads, m \in Mutexes :
          ((\A a \in GuardRanks(t) : a < rank[m]) /\ ThreadStateLock(t, m))
          => ~panicking'[t]]_vars

\* ------------------------------------------------------------------- C4
StrictlyIncreasing(t) ==
    \A i \in 1..Len(saved_state[t]), j \in 1..Len(saved_state[t]) :
        i < j => rank[saved_state[t][i]] < rank[saved_state[t][j]]

\* C4: monotonicity. The live guards of a thread, in acquisition order, have
\* strictly increasing rank codes; and every successful acquire of rank r
\* happens when every bit of the thread's RankSet is below r, so that r becomes
\* the highest bit and the highest bit strictly increases across the call.
C4_Monotonic ==
    /\ [](\A t \in Threads : StrictlyIncreasing(t))
    /\ [][\A t \in Threads, m \in Mutexes :
            (~panicking'[t] /\ ThreadStateLock(t, m))
            => /\ \A b \in RankSetOf(t) : b < rank[m]
               /\ Max(RankSetOf(t)') = rank[m]
               /\ RankSetOf(t) # {} => Max(RankSetOf(t)') > Max(RankSetOf(t))]_vars

\* A thread holds two guards.
C4_Witness ==
    \E t \in Threads : pc[t] = "idle" /\ ~panicking[t] /\ Len(saved_state[t]) >= 2
\* ------------------------------------------------------------------- C5
\* The last n entries of the log of the observed thread, oldest first
LogTail(n) == SubSeq(log[1], Len(log[1]) - n + 1, Len(log[1]))

\* The observed thread acquired rank a, then rank b > a, then released the two
\* guards, and did nothing else since.
AcquiredTwoReleasedBoth(a, b) ==
    /\ pc[1] = "idle"
    /\ Len(log[1]) >= 4
    /\ LET e == LogTail(4)
       IN  /\ e[1].op = "lock_ok" /\ e[1].rank = a
           /\ e[2].op = "lock_ok" /\ e[2].rank = b
           /\ e[3].op = "drop" /\ e[4].op = "drop"
           /\ {e[3].rank, e[4].rank} = {a, b}

\* C5: release independence. After a thread acquired rank a, then rank b with
\* a < b, and released the two guards in either order, both bits are clear and
\* ThreadState::lock of rank a passes its check again.
C5_ReleaseIndependence ==
    \A a \in RankCodes, b \in RankCodes :
        (a < b /\ AcquiredTwoReleasedBoth(a, b))
        => /\ a \notin RankSetOf(1)
           /\ b \notin RankSetOf(1)
           /\ AssertHolds(Insert(RankSetOf(1), a))

\* The guard of the lower rank a was released first, then the guard of b.
C5_Witness ==
    \E a \in RankCodes, b \in RankCodes :
        /\ a < b
        /\ AcquiredTwoReleasedBoth(a, b)
        /\ LogTail(4)[3].rank = a

\* ------------------------------------------------------------------- C6
\* The observed thread acquired rank a, then rank b > a, then released the
\* guard of a, and did nothing else since: the guard of b is live.
AcquiredTwoReleasedFirst(a, b) ==
    /\ pc[1] = "idle"
    /\ Len(log[1]) >= 3
    /\ LET e == LogTail(3)
       IN  /\ e[1].op = "lock_ok" /\ e[1].rank = a
           /\ e[2].op = "lock_ok" /\ e[2].rank = b
           /\ e[3].op = "drop" /\ e[3].rank = a

\* C6: release retains others. After a thread acquired rank a, then rank b with
\* a < b, and released the guard of a while the guard of b is live, bit b is
\* still set and ThreadState::lock of rank a, and of any rank <= b, fails its
\* check.
C6_ReleaseRetainsOthers ==
    \A a \in RankCodes, b \in RankCodes :
        (a < b /\ AcquiredTwoReleasedFirst(a, b))
        => /\ b \in GuardRanks(1)
           /\ b \in RankSetOf(1)
           /\ \A r \in RankCodes : r <= b => ~AssertHolds(Insert(RankSetOf(1), r))

\* The guard of a is released, the guard of b is the only one left.
C6_Witness ==
    \E a \in RankCodes, b \in RankCodes :
        /\ a < b
        /\ AcquiredTwoReleasedFirst(a, b)
        /\ GuardRanks(1) = {b}
        /\ ~panicking[1]
\* ------------------------------------------------------------------- C7
\* Thread t takes a step of ThreadState::lock or of ThreadState::unlock
RankStepOf(t) == (\E m \in Mutexes : ThreadStateLock(t, m)) \/ DropSavedState(t)

\* C7: thread isolation. The RankSet of a thread changes only in that thread's
\* own ThreadState::lock and ThreadState::unlock steps, whatever the other
\* threads do; and a Mutex::lock panics only when the caller's own RankSet has
\* a bit at or above the rank, and then it does so whatever the other threads'
\* RankSets hold.
C7_ThreadIsolation ==
    [][\A t \in Threads :
          /\ (RankSetOf(t)' # RankSetOf(t)) => RankStepOf(t)
          /\ \A m \in Mutexes :
                ThreadStateLock(t, m)
                => /\ \A u \in Threads \ {t} : RankSetOf(u)' = RankSetOf(u)
                   /\ panicking'[t] <=> (\E b \in RankSetOf(t) : b >= rank[m])]_vars

\* Two threads hold guards of the same rank at once;
\* neither is unwinding.
C7_Witness ==
    \E t1 \in Threads, t2 \in Threads :
        /\ t1 # t2
        /\ pc[t1] = "idle" /\ pc[t2] = "idle"
        /\ ~panicking[t1] /\ ~panicking[t2]
        /\ GuardRanks(t1) \cap GuardRanks(t2) # {}

\* ------------------------------------------------------------------- C8
\* C8: tracked set equals held set. For every thread, bit i of its RankSet is
\* set if and only if the thread owns a live SavedState of rank code i; the
\* RankSet is empty whenever the thread owns none.
C8_TrackedEqualsHeld ==
    \A t \in Threads : RankSetOf(t) = HeldRanks(t)

\* ------------------------------------------------------------------- C9
\* The observed thread acquired rank r from the RankSet value `before`, and
\* then released that guard, and did nothing else since.
RoundTrip(r, before) ==
    /\ pc[1] = "idle"
    /\ Len(log[1]) >= 2
    /\ LET e == LogTail(2)
       IN  /\ e[1].op = "lock_ok" /\ e[1].rank = r /\ e[1].pre = before
           /\ e[2].op = "drop" /\ e[2].rank = r

\* C9: round trip. A successful acquire of rank r followed by the release of
\* that guard returns the RankSet to its value before the acquire; and when the
\* thread held nothing at the acquire (it holds nothing afterwards either), the
\* result is the empty set, the state of a thread that never acquired anything.
C9_RoundTrip ==
    \A r \in RankCodes, before \in SUBSET RankCodes :
        RoundTrip(r, before)
        => /\ RankSetOf(1) = before
           /\ saved_state[1] = <<>> => RankSetOf(1) = RankSetNew

\* The part of C9 that the code keeps: the RankSet returns to its value before
\* the acquire.
C9_RestoresBefore ==
    \A r \in RankCodes, before \in SUBSET RankCodes :
        RoundTrip(r, before) => RankSetOf(1) = before

\* ------------------------------------------------------------------ C10
\* C10: check before block. A thread is inside self.inner.lock() (attempting,
\* blocked on, or about to acquire the underlying mutex) only after the rank
\* check of that call passed: it is not unwinding, the rank of the mutex is the
\* highest bit of its RankSet and above the ranks of its guards. A call whose
\* check fails leaves every underlying mutex alone and never enters
\* self.inner.lock(); and an underlying mutex is acquired only from there.
C10_CheckBeforeBlock ==
    /\ [](\A t \in Threads :
            pc[t] = "inner_lock"
            => /\ ~panicking[t]
               /\ Max(RankSetOf(t)) = rank[Last(saved_state[t])]
               /\ \A a \in GuardRanks(t) : a < rank[Last(saved_state[t])])
    /\ [][\A t \in Threads :
            /\ (panicking'[t] /\ ~panicking[t])
               => (inner' = inner /\ pc'[t] = "idle" /\ saved_state'[t] = saved_state[t])
            /\ (\E m \in Mutexes : inner'[m] = t /\ inner[m] # t)
               => (pc[t] = "inner_lock" /\ ~panicking[t])]_vars

\* A thread is blocked on an underlying mutex that another thread holds.
C10_Witness ==
    \E t \in Threads :
        /\ Blocked(t)
        /\ inner[Last(saved_state[t])] # t
        /\ rank[Last(saved_state[t])] \in RankSetOf(t)
\* ------------------------------------------------------------------ C11
\* self.inner.lock() on Mutex m reports poisoning: Mutex::lock returns
\* Err(PoisonError) around the guard. The flag is set only when a guard of m is
\* dropped, so a live guard of a poisoned m was returned in an Err.
ResultIsErr(m) == poisoned[m]

\* Guard i of thread t is whole: its drop has not begun
WholeGuard(t, i) == i \in GuardIndexes(t) /\ ~(pc[t] = "drop_saved" /\ dropping[t] = i)

\* C11: poison keeps the bookkeeping. When the rank check passed and the
\* underlying mutex reports poisoning, Mutex::lock still ends with a guard that
\* holds the underlying lock and the SavedState; the rank bit is set as long as
\* such a guard is whole, and the drop of the guard clears the bit.
C11_PoisonKeepsBookkeeping ==
    /\ [](\A t \in Threads : \A i \in 1..Len(saved_state[t]) :
            (WholeGuard(t, i) /\ ResultIsErr(saved_state[t][i]))
            => /\ inner[saved_state[t][i]] = t
               /\ rank[saved_state[t][i]] \in RankSetOf(t))
    /\ [][\A t \in Threads :
            /\ (pc[t] = "inner_lock" /\ ResultIsErr(Last(saved_state[t])) /\ InnerLock(t))
               => /\ pc'[t] = "idle"
                  /\ saved_state'[t] = saved_state[t]
                  /\ inner'[Last(saved_state[t])] = t
                  /\ rank[Last(saved_state[t])] \in RankSetOf(t)'
            /\ (pc[t] = "drop_saved" /\ ResultIsErr(saved_state[t][dropping[t]])
                   /\ DropSavedState(t))
               => /\ rank[saved_state[t][dropping[t]]] \notin RankSetOf(t)'
                  /\ inner'[saved_state[t][dropping[t]]] # t]_vars

\* A thread that is not unwinding holds the guard of a poisoned mutex.
C11_Witness ==
    \E t \in Threads, m \in Mutexes :
        /\ poisoned[m]
        /\ inner[m] = t
        /\ pc[t] = "idle"
        /\ ~panicking[t]
        /\ rank[m] \in RankSetOf(t)
\* ------------------------------------------------------------------ C12
\* C12: domain misconfiguration is caught at definition time. A domain with a
\* rank code of Width or more is rejected when it is defined, so that
\* RankSet::insert and RankSet::remove are never invoked, in an acquisition or
\* a release, with such a code.
C12_NoCallAtOrAboveWidth ==
    [][\A t \in Threads :
          /\ \A m \in Mutexes :
                (ThreadStateLock(t, m) \/ ShiftOverflow(t, m)) => rank[m] < Width
          /\ (pc[t] = "drop_saved" /\ DropSavedState(t))
             => rank[saved_state[t][dropping[t]]] < Width]_vars

\* Without overflow checks a held rank of code Width is recorded as bit 0, and
\* a lower rank is then acquired while it is held.
C12_AliasReached ==
    \E t \in Threads :
        /\ pc[t] = "idle" /\ ~panicking[t]
        /\ Len(saved_state[t]) = 2
        /\ rank[saved_state[t][1]] = Width
        /\ rank[saved_state[t][2]] = Width - 1
\* ------------------------------------------------------------------ C13
\* C13: guard destruction order. The drop of a MutexGuard releases the
\* underlying lock first and clears the rank bit second, both in the one drop:
\* between the two the lock is released and the bit still set, the drop's next
\* step is the clearing of the bit, and a rank bit is cleared only there. In no
\* state is the bit of a guard clear while the thread holds that guard's lock.
C13_DropOrder ==
    /\ [](\A t \in Threads :
            /\ pc[t] = "drop_saved"
               => /\ inner[saved_state[t][dropping[t]]] # t
                  /\ rank[saved_state[t][dropping[t]]] \in RankSetOf(t)
            /\ \A i \in 1..Len(saved_state[t]) :
                  inner[saved_state[t][i]] = t => rank[saved_state[t][i]] \in RankSetOf(t))
    /\ [][\A t \in Threads :
            /\ \A i \in 1..Len(saved_state[t]) :
                  (pc[t] = "idle" /\ DropInner(t, i))
                  => /\ inner'[saved_state[t][i]] = 0
                     /\ RankSetOf(t)' = RankSetOf(t)
                     /\ pc'[t] = "drop_saved"
            /\ (pc[t] = "drop_saved" /\ pc'[t] # "drop_saved")
               => /\ DropSavedState(t)
                  /\ rank[saved_state[t][dropping[t]]] \notin RankSetOf(t)'
                  /\ inner' = inner
            /\ (\E b \in RankSetOf(t) : b \notin RankSetOf(t)')
               => pc[t] = "drop_saved"]_vars

\* A thread is between the two halves of a drop, its bit still set, and another
\* thread has already taken the released lock.
C13_Witness ==
    \E t \in Threads, u \in Threads :
        /\ t # u
        /\ pc[t] = "drop_saved"
        /\ inner[saved_state[t][dropping[t]]] = u
        /\ rank[saved_state[t][dropping[t]]] \in RankSetOf(t)
\* ------------------------------------------------------------------ C14
\* C14: RankSet::insert against a set. For every mask and every code in
\* 0..63, insert(code) returns true exactly when the mask before the call had
\* a bit at a position >= code, and afterwards the mask is the old mask with
\* bit code added, whatever the result.
C14_InsertAgainstSet ==
    rank_set.op = "insert"
    => /\ rank_set.result <=> (\E b \in rank_set.pre : b >= rank_set.elt)
       /\ \A b \in Bits : b \in rank_set.bitset <=> (b \in rank_set.pre \/ b = rank_set.elt)

\* insert(63) on a mask with lower bits only: false, and bit 63 is added.
C14_Witness ==
    /\ rank_set.op = "insert"
    /\ rank_set.elt = Width - 1
    /\ rank_set.pre # {}
    /\ ~rank_set.result
    /\ Width - 1 \in rank_set.bitset

\* insert(0) on a non-empty mask: true.
C14_WitnessZero ==
    rank_set.op = "insert" /\ rank_set.elt = 0 /\ rank_set.pre # {} /\ rank_set.result

\* ------------------------------------------------------------------ C15
\* C15: RankSet::remove, frame and idempotence. For every mask and every code
\* in 0..63, remove(code) clears bit code and leaves every other bit as it was;
\* on a mask without the bit it changes nothing, and a second remove(code)
\* changes nothing more.
C15_RemoveFrame ==
    rank_set.op = "remove"
    => /\ rank_set.elt \notin rank_set.bitset
       /\ \A b \in Bits \ {rank_set.elt} : b \in rank_set.bitset <=> b \in rank_set.pre
       /\ rank_set.elt \notin rank_set.pre => rank_set.bitset = rank_set.pre
       /\ Remove(rank_set.bitset, rank_set.elt) = rank_set.bitset

\* A set bit is removed from between a lower and a higher set bit.
C15_Witness ==
    /\ rank_set.op = "remove"
    /\ rank_set.elt \in rank_set.pre
    /\ \E lo \in rank_set.bitset, hi \in rank_set.bitset :
          lo < rank_set.elt /\ rank_set.elt < hi
\* ------------------------------------------------------------------ C16
\* C16: state unchanged on error. A Mutex::lock call that is refused for
\* an order violation leaves the calling thread's RankSet exactly as it was
\* before the call.
C16_StateUnchangedOnError ==
    [][\A t \in Threads, m \in Mutexes :
          (pc[t] = "idle" /\ ~panicking[t] /\ ThreadStateLock(t, m) /\ panicking'[t])
          => RankSetOf(t)' = RankSetOf(t)]_vars

\* A refused call has left a bit that no live SavedState accounts for.
C16_LeakReached ==
    \E t \in Threads :
        /\ pc[t] = "idle"
        /\ ~panicking[t]
        /\ saved_state[t] = <<>>
        /\ RankSetOf(t) # {}

\* ------------------------------------------------------------------ C17
\* The Mutexes whose underlying lock thread t holds or is waiting for
InnerHeldOrAwaited(t) ==
    {m \in Mutexes : inner[m] = t \/ (pc[t] = "inner_lock" /\ Last(saved_state[t]) = m)}

\* C17: bookkeeping covers the lock. In every reachable state, a thread that
\* holds, or waits in self.inner.lock() for, the underlying lock of a Mutex of
\* rank r has bit r set in its RankSet: the recorded ranks are a superset of
\* the ranks of the underlying locks the thread holds.
C17_BookkeepingCoversLock ==
    \A t \in Threads :
        /\ \A m \in InnerHeldOrAwaited(t) : rank[m] \in RankSetOf(t)
        /\ {rank[m] : m \in {n \in Mutexes : inner[n] = t}} \subseteq RankSetOf(t)

\* A thread holds one underlying lock and is blocked waiting for another.
C17_Witness ==
    \E t \in Threads :
        /\ Blocked(t)
        /\ \E m \in Mutexes : inner[m] = t
        /\ Cardinality(InnerHeldOrAwaited(t)) = 2
        /\ \A m \in InnerHeldOrAwaited(t) : rank[m] \in RankSetOf(t)
====
